---- MODULE Spec2Model ----
(***************************************************************************)
(* Model of the registry endpoint fallback loop (getData) and of the       *)
(* directory transport's policy scope functions.                           *)
(*                                                                         *)
(*   Spec     getData as written: ctx is context.Background(), whose Done  *)
(*            channel never becomes ready.                                 *)
(*   SpecCtx  getData with a context whose Done channel may become ready   *)
(*            at any moment, to exercise the `case <-ctx.Done()` branch.   *)
(*   SpecDir  the directory transport's pure functions applied to bounded  *)
(*            strings.                                                     *)
(***************************************************************************)
EXTENDS Integers, Sequences, FiniteSets, TLC

\* ------------------------------------------------------------------ bounds
MaxEndpoints == 3
MaxScopeLen == 5
MaxPathLen == 6
MaxUserPathLen == 2
MaxElements == 2

\* --------------------------------------------------------------- constants
APIVersion1 == 1
APIVersion2 == 2

VARIABLES
    endpoints,               \* Version of each endpoint of LookupPullEndpoints
    idx,                     \* position of the range loop (1-based)
    pc,                      \* "loop", "fetch", "returned", "idle"
    lastErr,
    discardNoSupportErrors,
    confirmedV2,
    ctxDone,                 \* is ctx.Done() ready
    imgInspect,              \* 0 = nil, i = the result fetched from endpoint i
    retErr,                  \* the error getData returned
    log,                     \* history: calls made and what they returned
    scope,                   \* argument of ValidatePolicyConfigurationScope
    scopeErr,                \* its result
    ref,                     \* a dirReference
    identity,                \* result of PolicyConfigurationIdentity
    namespaces,              \* result of PolicyConfigurationNamespaces
    dirOp,                   \* last operation applied in the directory model
    ref2,                    \* the dirReference parsed from ref's string
    dockerOp,                \* last operation applied in the docker model
    dinput,                  \* argument of docker ParseReference / NewReference
    dref,                    \* its result
    dref2,                   \* the result of parsing dref's string
    didentity,               \* docker PolicyConfigurationIdentity
    dnamespaces              \* docker PolicyConfigurationNamespaces

fetchVars == <<endpoints, idx, pc, lastErr, discardNoSupportErrors, confirmedV2,
               ctxDone, imgInspect, retErr, log>>
dockerVars == <<dockerOp, dinput, dref, dref2, didentity, dnamespaces>>
dirVars == <<scope, scopeErr, ref, identity, namespaces, dirOp, ref2, dockerVars>>
vars == <<endpoints, idx, pc, lastErr, discardNoSupportErrors, confirmedV2,
          ctxDone, imgInspect, retErr, log, scope, scopeErr, ref, identity,
          namespaces, dirOp, ref2, dockerOp, dinput, dref, dref2, didentity,
          dnamespaces>>

\* ------------------------------------------------------------------ errors
\* An error value. wrapped: it is a fallbackError; confirmedV2: the field of
\* the fallbackError; kind: dynamic type of the (inner) error; ep: the
\* endpoint it came from (0: none).
MkErr(wrapped, cv2, kind, ep) ==
    [wrapped |-> wrapped, confirmedV2 |-> cv2, kind |-> kind, ep |-> ep]

NoErr == MkErr(FALSE, FALSE, "nil", 0)

\* fallbackError.err
Unwrap(err) == MkErr(FALSE, FALSE, err.kind, err.ep)

\* err.(fallbackError)
IsFallbackError(err) == err.wrapped

\* err.(registry.ErrNoSupport)
IsErrNoSupport(err) == (~err.wrapped) /\ err.kind = "ErrNoSupport"

\* fmt.Errorf("no endpoints found for %s", ref.String())
NoEndpointsErr == MkErr(FALSE, FALSE, "noEndpoints", 0)

\* The errors Fetch may return on endpoint i.
FetchErrors(i) ==
    {MkErr(FALSE, FALSE, k, i) : k \in {"ErrNoSupport", "Generic"}}
    \cup {MkErr(TRUE, c, k, i) : c \in BOOLEAN, k \in {"ErrNoSupport", "Generic"}}

\* Mutant: the v1 case of the switch is present.
NewManifestFetcherErr_V1Supported(version, i) ==
    IF version \in {APIVersion1, APIVersion2} THEN NoErr
    ELSE MkErr(FALSE, FALSE, "unknownVersion", i)

\* newManifestFetcher: NoErr for a v2 endpoint, else "unknown version".
NewManifestFetcherErr(version, i) ==
    IF version = APIVersion2 THEN NoErr
    ELSE MkErr(FALSE, FALSE, "unknownVersion", i)

\* Mutant: the version test names the wrong protocol version.
SkipEndpoint_WrongVersion(cv2, version) == cv2 /\ version = APIVersion2

\* The guard of the `continue` at the top of the loop body.
SkipEndpoint(cv2, version) == cv2 /\ version = APIVersion1

Entry(op, ep, err) == [op |-> op, ep |-> ep, err |-> err, done |-> ctxDone]

\* ----------------------------------------------------- fallback decision
\* Mutant: every error is treated as a fallback.
Fallback_AnyError(err, done) == ~done

\* Mutant: ctx.Done() is not looked at.
Fallback_IgnoresDone(err, done) == IsFallbackError(err)

\* The select statement: is the error treated as a fallback?
Fallback(err, done) == (~done) /\ IsFallbackError(err)

\* Mutant: the flag of the error overwrites confirmedV2.
NextConfirmedV2_Overwrites(cv2, err, done) ==
    IF Fallback(err, done) THEN err.confirmedV2 ELSE cv2

\* confirmedV2 after the select statement.
NextConfirmedV2(cv2, err, done) ==
    IF Fallback(err, done) THEN cv2 \/ err.confirmedV2 ELSE cv2

\* Mutant: the inner error is taken out even without fallback.
ErrAfterSelect_AlwaysUnwrap(err, done) == Unwrap(err)

\* err after the select statement.
ErrAfterSelect(err, done) ==
    IF Fallback(err, done) THEN Unwrap(err) ELSE err

\* discardNoSupportErrors after `if fallback { ... }`.
NextDiscard(discard, err) ==
    IF ~IsErrNoSupport(err) THEN TRUE ELSE discard

\* Mutant: the first remembered error is kept.
NextLastErr_KeepFirst(last, discard, err) == IF last = NoErr THEN err ELSE last

\* Mutant: discardNoSupportErrors is not consulted.
NextLastErr_Always(last, discard, err) == err

\* lastErr after `if fallback { ... }`.
NextLastErr(last, discard, err) ==
    IF ~IsErrNoSupport(err) THEN err
    ELSE IF ~discard THEN err
    ELSE last

\* ------------------------------------------------------------------- Init
EndpointLists ==
    UNION {[1..n -> {APIVersion1, APIVersion2}] : n \in 0..MaxEndpoints}

NoScopeErr == [err |-> "nil", try |-> <<>>]
NoRef == [path |-> <<>>, resolvedPath |-> <<>>]

\* A reference.Named: host, path elements, tag and digest ("" for none).
NoNamed == [host |-> "", path |-> <<>>, tag |-> "", digest |-> ""]

\* The result of a docker parse or constructor: ok = FALSE for an error.
DockerError == [ok |-> FALSE, ref |-> NoNamed]

DockerIdle ==
    /\ dockerOp = "idle"
    /\ dinput = <<>>
    /\ dref = DockerError
    /\ dref2 = DockerError
    /\ didentity = <<>>
    /\ dnamespaces = <<>>

DirIdle ==
    /\ scope = <<>>
    /\ scopeErr = NoScopeErr
    /\ ref = NoRef
    /\ identity = <<>>
    /\ namespaces = <<>>
    /\ dirOp = "idle"
    /\ ref2 = NoRef
    /\ DockerIdle

Init ==
    /\ endpoints \in EndpointLists
    /\ idx = 1
    /\ pc = "loop"
    /\ lastErr = NoErr
    /\ discardNoSupportErrors = FALSE
    /\ confirmedV2 = FALSE
    /\ ctxDone = FALSE
    /\ imgInspect = 0
    /\ retErr = NoErr
    /\ log = <<>>
    /\ DirIdle

\* ---------------------------------------------------------------- actions
InLoop == pc = "loop" /\ idx <= Len(endpoints)

\* `continue` for a v1 endpoint once v2 is confirmed.
SkipV1 ==
    /\ InLoop
    /\ SkipEndpoint(confirmedV2, endpoints[idx])
    /\ idx' = idx + 1
    /\ log' = Append(log, Entry("skip", idx, NoErr))
    /\ UNCHANGED <<endpoints, pc, lastErr, discardNoSupportErrors, confirmedV2,
                   ctxDone, imgInspect, retErr>>
    /\ UNCHANGED dirVars

\* Mutant: the construction error is not recorded.
NewFetcherFails_Forgets ==
    /\ InLoop
    /\ ~SkipEndpoint(confirmedV2, endpoints[idx])
    /\ NewManifestFetcherErr(endpoints[idx], idx) # NoErr
    /\ idx' = idx + 1
    /\ log' = Append(log, Entry("newManifestFetcher", idx,
                                 NewManifestFetcherErr(endpoints[idx], idx)))
    /\ UNCHANGED <<endpoints, pc, lastErr, discardNoSupportErrors, confirmedV2,
                   ctxDone, imgInspect, retErr>>
    /\ UNCHANGED dirVars

\* Mutant: the construction error ends getData.
NewFetcherFails_Returns ==
    /\ InLoop
    /\ ~SkipEndpoint(confirmedV2, endpoints[idx])
    /\ NewManifestFetcherErr(endpoints[idx], idx) # NoErr
    /\ retErr' = NewManifestFetcherErr(endpoints[idx], idx)
    /\ pc' = "returned"
    /\ log' = Append(log, Entry("newManifestFetcher", idx, retErr'))
    /\ UNCHANGED <<endpoints, idx, lastErr, discardNoSupportErrors, confirmedV2,
                   ctxDone, imgInspect>>
    /\ UNCHANGED dirVars

\* newManifestFetcher returns an error.
NewFetcherFails ==
    /\ InLoop
    /\ ~SkipEndpoint(confirmedV2, endpoints[idx])
    /\ NewManifestFetcherErr(endpoints[idx], idx) # NoErr
    /\ lastErr' = NewManifestFetcherErr(endpoints[idx], idx)
    /\ idx' = idx + 1
    /\ log' = Append(log, Entry("newManifestFetcher", idx, lastErr'))
    /\ UNCHANGED <<endpoints, pc, discardNoSupportErrors, confirmedV2,
                   ctxDone, imgInspect, retErr>>
    /\ UNCHANGED dirVars

\* newManifestFetcher succeeds and fetcher.Fetch is called.
FetchCall ==
    /\ InLoop
    /\ ~SkipEndpoint(confirmedV2, endpoints[idx])
    /\ NewManifestFetcherErr(endpoints[idx], idx) = NoErr
    /\ pc' = "fetch"
    /\ log' = log \o <<Entry("newManifestFetcher", idx, NoErr),
                       Entry("Fetch", idx, NoErr)>>
    /\ UNCHANGED <<endpoints, idx, lastErr, discardNoSupportErrors, confirmedV2,
                   ctxDone, imgInspect, retErr>>
    /\ UNCHANGED dirVars

\* Mutant: a successful Fetch does not leave the loop.
FetchSucceeds_KeepsLooping ==
    /\ pc = "fetch"
    /\ imgInspect' = idx
    /\ retErr' = NoErr
    /\ pc' = "loop"
    /\ idx' = idx + 1
    /\ log' = Append(log, Entry("FetchOk", idx, NoErr))
    /\ UNCHANGED <<endpoints, lastErr, discardNoSupportErrors, confirmedV2,
                   ctxDone>>
    /\ UNCHANGED dirVars

\* Fetch returns without error: return imgInspect, nil.
FetchSucceeds ==
    /\ pc = "fetch"
    /\ imgInspect' = idx
    /\ retErr' = NoErr
    /\ pc' = "returned"
    /\ log' = Append(log, Entry("FetchOk", idx, NoErr))
    /\ UNCHANGED <<endpoints, idx, lastErr, discardNoSupportErrors, confirmedV2,
                   ctxDone>>
    /\ UNCHANGED dirVars

\* Mutant: after a fallback the same endpoint is tried again.
HandleFetchError_Retries(err) ==
    LET fallback == Fallback(err, ctxDone)
        e == ErrAfterSelect(err, ctxDone)
    IN  /\ confirmedV2' = NextConfirmedV2(confirmedV2, err, ctxDone)
        /\ log' = Append(log, Entry("FetchErr", idx, err))
        /\ imgInspect' = 0
        /\ IF fallback
           THEN /\ discardNoSupportErrors' = NextDiscard(discardNoSupportErrors, e)
                /\ lastErr' = NextLastErr(lastErr, discardNoSupportErrors, e)
                /\ pc' = "loop"
                /\ UNCHANGED <<retErr, idx>>
           ELSE /\ retErr' = e
                /\ pc' = "returned"
                /\ UNCHANGED <<discardNoSupportErrors, lastErr, idx>>
        /\ UNCHANGED <<endpoints, ctxDone>>
        /\ UNCHANGED dirVars

\* Fetch returns err; the select and the `if fallback` that follow it.
HandleFetchError(err) ==
    LET fallback == Fallback(err, ctxDone)
        e == ErrAfterSelect(err, ctxDone)
    IN  /\ confirmedV2' = NextConfirmedV2(confirmedV2, err, ctxDone)
        /\ log' = Append(log, Entry("FetchErr", idx, err))
        /\ imgInspect' = 0
        /\ IF fallback
           THEN /\ discardNoSupportErrors' = NextDiscard(discardNoSupportErrors, e)
                /\ lastErr' = NextLastErr(lastErr, discardNoSupportErrors, e)
                /\ idx' = idx + 1
                /\ pc' = "loop"
                /\ UNCHANGED retErr
           ELSE /\ retErr' = e
                /\ pc' = "returned"
                /\ UNCHANGED <<discardNoSupportErrors, lastErr, idx>>
        /\ UNCHANGED <<endpoints, ctxDone>>
        /\ UNCHANGED dirVars

\* Fetch fails with a fallbackError while ctx is not done.
FetchFailsFallback ==
    /\ pc = "fetch"
    /\ ~ctxDone
    /\ \E err \in FetchErrors(idx) : IsFallbackError(err) /\ HandleFetchError(err)

\* Fetch fails with another error while ctx is not done.
FetchFailsOther ==
    /\ pc = "fetch"
    /\ ~ctxDone
    /\ \E err \in FetchErrors(idx) : ~IsFallbackError(err) /\ HandleFetchError(err)

\* Fetch fails and ctx.Done() is ready.
FetchFailsCancelled ==
    /\ pc = "fetch"
    /\ ctxDone
    /\ \E err \in FetchErrors(idx) : HandleFetchError(err)

\* Mutant: lastErr is returned as it is, nil included.
Exhausted_NilNil ==
    /\ pc = "loop"
    /\ idx > Len(endpoints)
    /\ retErr' = lastErr
    /\ pc' = "returned"
    /\ UNCHANGED <<endpoints, idx, lastErr, discardNoSupportErrors, confirmedV2,
                   ctxDone, imgInspect, log>>
    /\ UNCHANGED dirVars

\* The range loop is over.
Exhausted ==
    /\ pc = "loop"
    /\ idx > Len(endpoints)
    /\ retErr' = IF lastErr = NoErr THEN NoEndpointsErr ELSE lastErr
    /\ lastErr' = retErr'
    /\ pc' = "returned"
    /\ UNCHANGED <<endpoints, idx, discardNoSupportErrors, confirmedV2,
                   ctxDone, imgInspect, log>>
    /\ UNCHANGED dirVars

\* ctx.Done() becomes ready (never for context.Background()).
Cancel ==
    /\ pc \in {"loop", "fetch"}
    /\ ~ctxDone
    /\ ctxDone' = TRUE
    /\ log' = Append(log, Entry(IF pc = "loop" THEN "cancelBetween" ELSE "cancelInFetch",
                                 0, NoErr))
    /\ UNCHANGED <<endpoints, idx, pc, lastErr, discardNoSupportErrors,
                   confirmedV2, imgInspect, retErr>>
    /\ UNCHANGED dirVars

Next ==
    \/ SkipV1
    \/ NewFetcherFails
    \/ FetchCall
    \/ FetchSucceeds
    \/ FetchFailsFallback
    \/ FetchFailsOther
    \/ Exhausted

Spec == Init /\ [][Next]_vars

\* getData runs on: a step that can be taken is taken (calls return).
SpecFair == Init /\ [][Next]_vars /\ WF_vars(Next)

NextCtx ==
    \/ SkipV1
    \/ NewFetcherFails
    \/ FetchCall
    \/ FetchSucceeds
    \/ FetchFailsFallback
    \/ FetchFailsOther
    \/ FetchFailsCancelled
    \/ Exhausted
    \/ Cancel

SpecCtx == Init /\ [][NextCtx]_vars

\* ------------------------------------------------- directory transport
\* Strings are sequences of characters.
Chars == {"/", "a", "b", "."}

Strs(lo, hi) == UNION {[1..n -> Chars] : n \in lo..hi}

\* strings.HasPrefix(s, "/")
HasSlashPrefix(s) == Len(s) >= 1 /\ s[1] = "/"

\* strings.LastIndex(s, "/"): 0-based index of the last "/", or -1.
LastSlash(s) ==
    LET at == {i \in 1..Len(s) : s[i] = "/"}
    IN  IF at = {} THEN -1 ELSE (CHOOSE i \in at : \A j \in at : j <= i) - 1

\* filepath.Clean, `..` case: drop the last element written to out.
RECURSIVE Backtrack(_, _, _)
Backtrack(out, w, dotdot) ==
    IF w > dotdot /\ out[w + 1] # "/" THEN Backtrack(out, w - 1, dotdot)
    ELSE SubSeq(out, 1, w)

\* End (0-based, exclusive) of the path element that starts at r.
RECURSIVE ElementEnd(_, _)
ElementEnd(path, r) ==
    IF r < Len(path) /\ path[r + 1] # "/" THEN ElementEnd(path, r + 1) ELSE r

\* filepath.Clean, the loop over the path; r and dotdot are 0-based as in Go.
RECURSIVE CleanLoop(_, _, _, _)
CleanLoop(path, r, out, dotdot) ==
    LET n == Len(path)
        rooted == path[1] = "/"
    IN  IF r >= n THEN out
        ELSE IF path[r + 1] = "/" THEN CleanLoop(path, r + 1, out, dotdot)
        ELSE IF path[r + 1] = "." /\ (r + 1 = n \/ path[r + 2] = "/")
             THEN CleanLoop(path, r + 1, out, dotdot)
        ELSE IF path[r + 1] = "." /\ path[r + 2] = "."
                  /\ (r + 2 = n \/ path[r + 3] = "/")
             THEN IF Len(out) > dotdot
                  THEN CleanLoop(path, r + 2, Backtrack(out, Len(out) - 1, dotdot), dotdot)
                  ELSE IF ~rooted
                  THEN LET o2 == (IF Len(out) > 0 THEN Append(out, "/") ELSE out)
                                     \o <<".", ".">>
                       IN  CleanLoop(path, r + 2, o2, Len(o2))
                  ELSE CleanLoop(path, r + 2, out, dotdot)
        ELSE LET o1 == IF (rooted /\ Len(out) # 1) \/ (~rooted /\ Len(out) # 0)
                       THEN Append(out, "/") ELSE out
                 e == ElementEnd(path, r)
             IN  CleanLoop(path, e, o1 \o SubSeq(path, r + 1, e), dotdot)

\* filepath.Clean
Clean(path) ==
    IF path = <<>> THEN <<".">>
    ELSE LET rooted == path[1] = "/"
             res == IF rooted THEN CleanLoop(path, 1, <<"/">>, 1)
                    ELSE CleanLoop(path, 0, <<>>, 0)
         IN  IF res = <<>> THEN <<".">> ELSE res

\* Mutant: "/" is not refused.
ValidatePolicyConfigurationScope_NoRootCheck(s) ==
    IF ~HasSlashPrefix(s) THEN [err |-> "notAbsolute", try |-> <<>>]
    ELSE IF Clean(s) # s THEN [err |-> "nonCanonical", try |-> Clean(s)]
    ELSE NoScopeErr

\* dirTransport.ValidatePolicyConfigurationScope: the error it returns
\* (err = "nil": none) and the path the error message suggests.
ValidatePolicyConfigurationScope(s) ==
    IF ~HasSlashPrefix(s) THEN [err |-> "notAbsolute", try |-> <<>>]
    ELSE IF s = <<"/">> THEN [err |-> "root", try |-> <<>>]
    ELSE IF Clean(s) # s THEN [err |-> "nonCanonical", try |-> Clean(s)]
    ELSE NoScopeErr

\* dirReference.PolicyConfigurationIdentity
PolicyConfigurationIdentity(r) == r.resolvedPath

\* Mutant: the loop stops only when no "/" is left.
RECURSIVE NamespacesLoop_NoRootStop(_, _)
NamespacesLoop_NoRootStop(path, res) ==
    LET lastSlash == LastSlash(path)
    IN  IF lastSlash = -1 THEN res
        ELSE NamespacesLoop_NoRootStop(SubSeq(path, 1, lastSlash),
                                       Append(res, SubSeq(path, 1, lastSlash)))

\* dirReference.PolicyConfigurationNamespaces: the loop, from path with res.
RECURSIVE NamespacesLoop(_, _)
NamespacesLoop(path, res) ==
    LET lastSlash == LastSlash(path)
    IN  IF lastSlash = -1 \/ lastSlash = 0 THEN res
        ELSE NamespacesLoop(SubSeq(path, 1, lastSlash),
                            Append(res, SubSeq(path, 1, lastSlash)))

PolicyConfigurationNamespaces(r) == NamespacesLoop(r.resolvedPath, <<>>)

\* explicitfilepath.ResolvePathToFullyExplicit: the paths it may return,
\* absolute and cleaned; which one depends on the file system.
ResolvedPaths ==
    {s \in Strs(1, MaxPathLen) : HasSlashPrefix(s) /\ Clean(s) = s}

InitDir ==
    /\ endpoints = <<>>
    /\ idx = 1
    /\ pc = "idle"
    /\ lastErr = NoErr
    /\ discardNoSupportErrors = FALSE
    /\ confirmedV2 = FALSE
    /\ ctxDone = FALSE
    /\ imgInspect = 0
    /\ retErr = NoErr
    /\ log = <<>>
    /\ DirIdle

\* A call of Transport.ValidatePolicyConfigurationScope(s).
ValidateScope ==
    /\ pc = "idle"
    /\ dirOp = "idle"
    /\ dockerOp = "idle"
    /\ \E s \in Strs(1, MaxScopeLen) :
          /\ scope' = s
          /\ scopeErr' = ValidatePolicyConfigurationScope(s)
    /\ dirOp' = "validate"
    /\ UNCHANGED <<ref, identity, namespaces, ref2, dockerVars>>
    /\ UNCHANGED fetchVars

\* A call of NewReference(path) that succeeds.
NewReference ==
    /\ pc = "idle"
    /\ dirOp = "idle"
    /\ dockerOp = "idle"
    /\ \E p \in Strs(1, MaxUserPathLen) : \E r \in ResolvedPaths :
          /\ (Clean(p) = <<"/">> => r = <<"/">>)
          /\ ref' = [path |-> p, resolvedPath |-> r]
    /\ dirOp' = "new"
    /\ UNCHANGED <<scope, scopeErr, identity, namespaces, ref2, dockerVars>>
    /\ UNCHANGED fetchVars

\* Calls of ref.PolicyConfigurationIdentity() and
\* ref.PolicyConfigurationNamespaces().
PolicyConfiguration ==
    /\ pc = "idle"
    /\ dirOp = "new"
    /\ identity' = PolicyConfigurationIdentity(ref)
    /\ namespaces' = PolicyConfigurationNamespaces(ref)
    /\ dirOp' = "policy"
    /\ UNCHANGED <<scope, scopeErr, ref, ref2, dockerVars>>
    /\ UNCHANGED fetchVars

NextDir ==
    \/ ValidateScope
    \/ NewReference
    \/ PolicyConfiguration

SpecDir == InitDir /\ [][NextDir]_vars

\* ------------------------------------------ directory reference strings
\* Mutant: the string carries the transport name.
DirStringWithinTransport_WithName(r) == <<"d", "i", "r", ":">> \o r.path

\* dirReference.StringWithinTransport
DirStringWithinTransport(r) == r.path

\* dirTransport.ParseReference(ref.StringWithinTransport()), the file system
\* being as it was when ref was made: the same path resolves as before.
DirReparse ==
    /\ pc = "idle"
    /\ dirOp = "new"
    /\ LET str == DirStringWithinTransport(ref)
       IN  \E r \in (IF str = ref.path THEN {ref.resolvedPath} ELSE ResolvedPaths) :
               ref2' = [path |-> str, resolvedPath |-> r]
    /\ dirOp' = "reparse"
    /\ UNCHANGED <<scope, scopeErr, ref, identity, namespaces, dockerVars>>
    /\ UNCHANGED fetchVars

\* ------------------------------------------------------ docker transport
\* Docker strings are sequences of tokens: "//", "/", ":", "@", host names,
\* path elements, tags and digests.
DefaultHostname == "docker.io"
DefaultRepoPrefix == "library"
DefaultTag == "latest"

Hostnames == {DefaultHostname, "example.com"}
LowerElements == {DefaultRepoPrefix, "busybox", "ns", "foo"}
Elements == LowerElements \cup {"UPPERCASEISINVALID"}
Tags == {DefaultTag, "notlatest", "bar"}
Digests == {"sha256:0123"}

RECURSIVE JoinSlash(_)
JoinSlash(elems) ==
    IF Len(elems) = 0 THEN <<>>
    ELSE IF Len(elems) = 1 THEN <<elems[1]>>
    ELSE <<elems[1], "/">> \o JoinSlash(Tail(elems))

\* ":tag" and "@digest" as written after a name.
PinTokens(tag, digest) ==
    (IF tag = "" THEN <<>> ELSE <<":", tag>>)
        \o (IF digest = "" THEN <<>> ELSE <<"@", digest>>)

\* The strings a user may pass to ParseReference.
DockerInputs ==
    {prefix \o (IF h = "" THEN <<>> ELSE <<h, "/">>) \o JoinSlash(p) \o PinTokens(t, d) :
        prefix \in {<<>>, <<"//">>},
        h \in Hostnames \cup {""},
        p \in UNION {[1..n -> Elements] : n \in 1..MaxElements},
        t \in Tags \cup {""},
        d \in Digests \cup {""}}

\* The names a caller may pass to NewReference, a name with a tag and a
\* digest at once (refWithTagAndDigest) among them.
DockerNames ==
    {[host |-> h, path |-> p, tag |-> t, digest |-> d] :
        h \in Hostnames,
        p \in UNION {[1..n -> LowerElements] : n \in 1..MaxElements},
        t \in Tags \cup {""},
        d \in Digests \cup {""}}

\* Position of the first tok in s, 0 if there is none.
IndexOf(s, tok) ==
    LET at == {i \in 1..Len(s) : s[i] = tok}
    IN  IF at = {} THEN 0 ELSE CHOOSE i \in at : \A j \in at : i <= j

\* Mutant: of a tag and a digest the tag is kept.
ParseNamed_KeepsTag(s) ==
    LET at == IndexOf(s, "@")
        beforeAt == IF at = 0 THEN s ELSE SubSeq(s, 1, at - 1)
        digest == IF at = 0 THEN ""
                  ELSE IF at + 1 = Len(s) THEN s[at + 1] ELSE "?"
        colon == IndexOf(beforeAt, ":")
        nameToks == IF colon = 0 THEN beforeAt ELSE SubSeq(beforeAt, 1, colon - 1)
        tag == IF colon = 0 THEN ""
               ELSE IF colon + 1 = Len(beforeAt) THEN beforeAt[colon + 1] ELSE "?"
        wellFormed ==
            /\ Len(nameToks) % 2 = 1
            /\ \A i \in 1..Len(nameToks) :
                  IF i % 2 = 0 THEN nameToks[i] = "/"
                  ELSE nameToks[i] \in Elements \cup Hostnames
            /\ tag \in Tags \cup {""}
            /\ digest \in Digests \cup {""}
        elems == [i \in 1..((Len(nameToks) + 1) \div 2) |-> nameToks[2 * i - 1]]
        hasHost == Len(elems) > 1 /\ elems[1] \in Hostnames
        host == IF hasHost THEN elems[1] ELSE DefaultHostname
        remote0 == IF hasHost THEN Tail(elems) ELSE elems
        remote == IF host = DefaultHostname /\ Len(remote0) = 1
                  THEN <<DefaultRepoPrefix>> \o remote0 ELSE remote0
    IN  IF ~wellFormed THEN DockerError
        ELSE IF \E i \in 1..Len(remote) : remote[i] \notin LowerElements \cup Hostnames
        THEN DockerError
        ELSE [ok |-> TRUE,
              ref |-> [host |-> host, path |-> remote, tag |-> tag,
                       digest |-> IF tag # "" THEN "" ELSE digest]]

\* reference.ParseNamed: name [":" tag] ["@" digest]; a name without a host
\* gets the default host, a one-element name on the default host gets the
\* default namespace, upper case is refused, and of a tag and a digest the
\* digest is kept.
ParseNamed(s) ==
    LET at == IndexOf(s, "@")
        beforeAt == IF at = 0 THEN s ELSE SubSeq(s, 1, at - 1)
        digest == IF at = 0 THEN ""
                  ELSE IF at + 1 = Len(s) THEN s[at + 1] ELSE "?"
        colon == IndexOf(beforeAt, ":")
        nameToks == IF colon = 0 THEN beforeAt ELSE SubSeq(beforeAt, 1, colon - 1)
        tag == IF colon = 0 THEN ""
               ELSE IF colon + 1 = Len(beforeAt) THEN beforeAt[colon + 1] ELSE "?"
        wellFormed ==
            /\ Len(nameToks) % 2 = 1
            /\ \A i \in 1..Len(nameToks) :
                  IF i % 2 = 0 THEN nameToks[i] = "/"
                  ELSE nameToks[i] \in Elements \cup Hostnames
            /\ tag \in Tags \cup {""}
            /\ digest \in Digests \cup {""}
        elems == [i \in 1..((Len(nameToks) + 1) \div 2) |-> nameToks[2 * i - 1]]
        hasHost == Len(elems) > 1 /\ elems[1] \in Hostnames
        host == IF hasHost THEN elems[1] ELSE DefaultHostname
        remote0 == IF hasHost THEN Tail(elems) ELSE elems
        remote == IF host = DefaultHostname /\ Len(remote0) = 1
                  THEN <<DefaultRepoPrefix>> \o remote0 ELSE remote0
    IN  IF ~wellFormed THEN DockerError
        ELSE IF \E i \in 1..Len(remote) : remote[i] \notin LowerElements \cup Hostnames
        THEN DockerError
        ELSE [ok |-> TRUE,
              ref |-> [host |-> host, path |-> remote,
                       tag |-> IF digest # "" THEN "" ELSE tag,
                       digest |-> digest]]

\* Mutant: a name with a tag and a digest is accepted.
DockerNewReference_AcceptsBoth(named) ==
    IF named.tag = "" /\ named.digest = "" THEN DockerError
    ELSE [ok |-> TRUE, ref |-> named]

\* docker.NewReference: a name with neither tag nor digest, or with both, is
\* refused.
DockerNewReference(named) ==
    IF named.tag = "" /\ named.digest = "" THEN DockerError
    ELSE IF named.tag # "" /\ named.digest # "" THEN DockerError
    ELSE [ok |-> TRUE, ref |-> named]

\* docker ParseReference: "//" is required, a name-only reference gets the
\* default tag.
DockerParseReference(s) ==
    IF Len(s) = 0 \/ s[1] # "//" THEN DockerError
    ELSE LET parsed == ParseNamed(Tail(s))
         IN  IF ~parsed.ok THEN DockerError
             ELSE IF parsed.ref.tag = "" /\ parsed.ref.digest = ""
             THEN DockerNewReference([parsed.ref EXCEPT !.tag = DefaultTag])
             ELSE DockerNewReference(parsed.ref)

\* reference.Named.FullName
FullName(named) == <<named.host, "/">> \o JoinSlash(named.path)

\* reference.Named.String: the default host and the default namespace are
\* left out.
NamedString(named) ==
    (IF named.host # DefaultHostname THEN FullName(named)
     ELSE IF Len(named.path) = 2 /\ named.path[1] = DefaultRepoPrefix
     THEN <<named.path[2]>>
     ELSE JoinSlash(named.path))
        \o PinTokens(named.tag, named.digest)

\* dockerReference.StringWithinTransport
DockerStringWithinTransport(named) == <<"//">> \o NamedString(named)

\* dockerReference.PolicyConfigurationIdentity
DockerPolicyConfigurationIdentity(named) ==
    FullName(named) \o PinTokens(named.tag, named.digest)

\* Mutant: the host alone is not listed.
RECURSIVE DockerNamespacesLoop_StopsBeforeHost(_, _)
DockerNamespacesLoop_StopsBeforeHost(name, res) ==
    LET lastSlash == LastSlash(name)
    IN  IF lastSlash = -1 \/ lastSlash = 1 THEN res
        ELSE DockerNamespacesLoop_StopsBeforeHost(SubSeq(name, 1, lastSlash),
                                                  Append(res, SubSeq(name, 1, lastSlash)))

\* dockerReference.PolicyConfigurationNamespaces: the name, then the name
\* with one more trailing element taken off each time, down to the host.
RECURSIVE DockerNamespacesLoop(_, _)
DockerNamespacesLoop(name, res) ==
    LET lastSlash == LastSlash(name)
    IN  IF lastSlash = -1 THEN res
        ELSE DockerNamespacesLoop(SubSeq(name, 1, lastSlash),
                                  Append(res, SubSeq(name, 1, lastSlash)))

DockerPolicyConfigurationNamespaces(named) ==
    DockerNamespacesLoop(FullName(named), <<FullName(named)>>)

DockerFree == pc = "idle" /\ dirOp = "idle"

\* A call of docker ParseReference(s).
DockerParse ==
    /\ DockerFree
    /\ dockerOp = "idle"
    /\ \E s \in DockerInputs :
          /\ dinput' = s
          /\ dref' = DockerParseReference(s)
    /\ dockerOp' = "parse"
    /\ UNCHANGED <<dref2, didentity, dnamespaces>>
    /\ UNCHANGED <<scope, scopeErr, ref, identity, namespaces, dirOp, ref2>>
    /\ UNCHANGED fetchVars

\* A call of docker NewReference(named).
DockerNew ==
    /\ DockerFree
    /\ dockerOp = "idle"
    /\ \E named \in DockerNames :
          /\ dinput' = named
          /\ dref' = DockerNewReference(named)
    /\ dockerOp' = "new"
    /\ UNCHANGED <<dref2, didentity, dnamespaces>>
    /\ UNCHANGED <<scope, scopeErr, ref, identity, namespaces, dirOp, ref2>>
    /\ UNCHANGED fetchVars

\* Transport.ParseReference(ref.StringWithinTransport()).
DockerReparse ==
    /\ DockerFree
    /\ dockerOp = "parse"
    /\ dref.ok
    /\ dref2' = DockerParseReference(DockerStringWithinTransport(dref.ref))
    /\ dockerOp' = "reparse"
    /\ UNCHANGED <<dinput, dref, didentity, dnamespaces>>
    /\ UNCHANGED <<scope, scopeErr, ref, identity, namespaces, dirOp, ref2>>
    /\ UNCHANGED fetchVars

\* Calls of ref.PolicyConfigurationIdentity() and
\* ref.PolicyConfigurationNamespaces().
DockerPolicyConfiguration ==
    /\ DockerFree
    /\ dockerOp = "parse"
    /\ dref.ok
    /\ didentity' = DockerPolicyConfigurationIdentity(dref.ref)
    /\ dnamespaces' = DockerPolicyConfigurationNamespaces(dref.ref)
    /\ dockerOp' = "policy"
    /\ UNCHANGED <<dinput, dref, dref2>>
    /\ UNCHANGED <<scope, scopeErr, ref, identity, namespaces, dirOp, ref2>>
    /\ UNCHANGED fetchVars

NextRef ==
    \/ NewReference
    \/ DirReparse
    \/ DockerParse
    \/ DockerNew
    \/ DockerReparse
    \/ DockerPolicyConfiguration

\* References of both transports: made, turned into strings, parsed again.
SpecRef == InitDir /\ [][NextRef]_vars

\* ------------------------------------------------------- history helpers
LogIdx == 1..Len(log)

\* Entry k records a call made on an endpoint.
IsCall(k) == log[k].op \in {"newManifestFetcher", "Fetch"}

\* Entry k records a Fetch failure observed while ctx was not done.
IsLiveFailure(k) == log[k].op = "FetchErr" /\ ~log[k].done

\* Entry k records a Fetch failure treated as a fallback.
IsFallbackFailure(k) == IsLiveFailure(k) /\ log[k].err.wrapped

\* getData returned from below the loop.
ReturnedExhausted == pc = "returned" /\ idx > Len(endpoints)

\* The step is the return of a Fetch call with an error.
FetchErrStep == pc = "fetch" /\ Len(log') = Len(log) + 1 /\ log'[Len(log')].op = "FetchErr"

\* ---------------------------------------------------------------- claims

\* C1: as soon as Fetch on some endpoint returns without error, getData
\* returns that endpoint's result with a nil error, whatever lastErr holds,
\* and no call is ever made on a later endpoint.
C1_FirstSuccessReturns ==
    \A k \in LogIdx :
        log[k].op = "FetchOk" =>
            /\ k = Len(log)
            /\ pc = "returned"
            /\ imgInspect = log[k].ep
            /\ retErr = NoErr
            /\ \A j \in LogIdx : log[j].ep <= log[k].ep

\* A success on an endpoint that is not the last one, after an earlier
\* endpoint's error was recorded.
C1_Witness ==
    /\ pc = "returned"
    /\ imgInspect # 0
    /\ imgInspect < Len(endpoints)
    /\ lastErr # NoErr
    /\ ~ctxDone

\* Some earlier entry is a live fallback failure carrying confirmedV2 = true.
SeenConfirmedV2(j) ==
    \E k \in 1..(j - 1) : IsFallbackFailure(k) /\ log[k].err.confirmedV2

\* C2: once a non-cancelled fetch failure carrying confirmedV2 = true has
\* been seen, every later v1 endpoint is skipped: no newManifestFetcher and no
\* Fetch is called for it, and the skip leaves lastErr, confirmedV2 and
\* discardNoSupportErrors as they are.
C2_SkipInv ==
    \A j \in LogIdx :
        (SeenConfirmedV2(j) /\ log[j].ep > 0 /\ endpoints[log[j].ep] = APIVersion1)
            => log[j].op = "skip"

C2_SkipStep ==
    (InLoop /\ SeenConfirmedV2(Len(log) + 1) /\ endpoints[idx] = APIVersion1
       /\ idx' # idx)
        => /\ log' = Append(log, Entry("skip", idx, NoErr))
           /\ idx' = idx + 1
           /\ pc' = "loop"
           /\ UNCHANGED <<lastErr, confirmedV2, discardNoSupportErrors>>

C2_ConfirmedV2SkipsV1 == [](C2_SkipInv) /\ [][C2_SkipStep]_vars

\* A v1 endpoint skipped after a confirmedV2 failure, with an error remembered.
C2_Witness ==
    /\ \E j \in LogIdx : log[j].op = "skip" /\ SeenConfirmedV2(j)
    /\ lastErr # NoErr
    /\ ~ctxDone

\* The run of C3: [V2-a, V2-b, V1-c], V2-a fails with a fallback
\* ErrNoSupport, V2-b with a fallback generic error carrying confirmedV2.
C3_Scenario ==
    /\ endpoints = <<APIVersion2, APIVersion2, APIVersion1>>
    /\ \E k \in LogIdx :
          /\ IsFallbackFailure(k)
          /\ log[k].ep = 1
          /\ log[k].err.kind = "ErrNoSupport"
    /\ \E k \in LogIdx :
          /\ IsFallbackFailure(k)
          /\ log[k].ep = 2
          /\ log[k].err = MkErr(TRUE, TRUE, "Generic", 2)

\* C3: in that run getData never attempts V1-c and returns V2-b's unwrapped
\* generic error, not V2-a's ErrNoSupport.
C3_FallbackOrdering ==
    C3_Scenario =>
        /\ \A j \in LogIdx : log[j].ep = 3 => log[j].op = "skip"
        /\ lastErr = MkErr(FALSE, FALSE, "Generic", 2)
        /\ pc = "returned" =>
              /\ retErr = MkErr(FALSE, FALSE, "Generic", 2)
              /\ imgInspect = 0

C3_Witness ==
    /\ C3_Scenario
    /\ pc = "returned"
    /\ \E j \in LogIdx : log[j].op = "skip" /\ log[j].ep = 3
    /\ ~ctxDone

\* Some entry before j is a fallback failure whose cause is not ErrNoSupport.
SeenRealFailure(j) ==
    \E k \in 1..(j - 1) : IsFallbackFailure(k) /\ log[k].err.kind # "ErrNoSupport"

\* C4: after a fallback failure whose cause is not ErrNoSupport, an
\* ErrNoSupport failure of a later endpoint never replaces lastErr, and the
\* error returned on exhaustion is not an ErrNoSupport.
C4_Inv ==
    SeenRealFailure(Len(log) + 1) =>
        /\ lastErr.kind # "ErrNoSupport"
        /\ ReturnedExhausted => retErr.kind # "ErrNoSupport"

C4_Step ==
    (SeenRealFailure(Len(log) + 1) /\ FetchErrStep
       /\ log'[Len(log')].err.kind = "ErrNoSupport")
        => lastErr' = lastErr

C4_NoSupportIgnored == [](C4_Inv) /\ [][C4_Step]_vars

\* An exhausted run in which a fallback ErrNoSupport followed a real failure.
C4_Witness ==
    /\ ReturnedExhausted
    /\ \E j \in LogIdx :
          /\ SeenRealFailure(j)
          /\ IsFallbackFailure(j)
          /\ log[j].err.kind = "ErrNoSupport"
    /\ ~ctxDone

\* C5 as stated: every non-cancelled fetch failure, wrapped or not, lets the
\* loop continue, and an error is returned only on exhaustion or cancellation.
C5_Original ==
    /\ \A k \in LogIdx : IsLiveFailure(k) => idx > log[k].ep
    /\ (pc = "returned" /\ retErr # NoErr) => (idx > Len(endpoints) \/ ctxDone)

\* C5 amended: a non-cancelled failure that is a fallbackError lets the loop
\* continue (a cause other than ErrNoSupport sets discardNoSupportErrors and
\* becomes lastErr); a failure that is not a fallbackError ends getData at
\* that endpoint with exactly that error.
C5_FailureContinuesIffFallback ==
    \A k \in LogIdx :
        IsLiveFailure(k) =>
            IF log[k].err.wrapped
            THEN /\ idx > log[k].ep
                 /\ (k = Len(log) => (pc = "loop" \/ ReturnedExhausted))
                 /\ log[k].err.kind # "ErrNoSupport" =>
                       /\ discardNoSupportErrors
                       /\ (k = Len(log) => lastErr = Unwrap(log[k].err))
            ELSE /\ k = Len(log)
                 /\ pc = "returned"
                 /\ idx = log[k].ep
                 /\ retErr = log[k].err
                 /\ imgInspect = 0

\* A fallback failure was followed by a failure that is no fallbackError,
\* with endpoints left in the list.
C5_Witness ==
    /\ pc = "returned"
    /\ idx < Len(endpoints)
    /\ \E k \in LogIdx : IsFallbackFailure(k) /\ log[k].err.kind = "Generic"
    /\ \E k \in LogIdx : IsLiveFailure(k) /\ ~log[k].err.wrapped
    /\ ~ctxDone

\* Some endpoint was attempted (fetcher construction was tried).
Attempted == \E k \in LogIdx : log[k].op = "newManifestFetcher"

\* C6: on exhaustion getData returns the "no endpoints found" error exactly
\* when no endpoint was attempted; otherwise it returns an error recorded
\* from an attempted endpoint.
C6_ExhaustedError ==
    ReturnedExhausted =>
        /\ imgInspect = 0
        /\ retErr # NoErr
        /\ (retErr = NoEndpointsErr) <=> ~Attempted
        /\ Attempted =>
              \E k \in LogIdx :
                  /\ log[k].op \in {"newManifestFetcher", "FetchErr"}
                  /\ log[k].err # NoErr
                  /\ retErr = Unwrap(log[k].err)

\* An exhausted run with a skipped endpoint and attempted ones.
C6_Witness ==
    /\ ReturnedExhausted
    /\ Attempted
    /\ \E k \in LogIdx : log[k].op = "skip"
    /\ ~ctxDone

\* An exhausted run without any attempt.
C6_WitnessNone == ReturnedExhausted /\ ~Attempted

\* C7: a Fetch error observed while ctx is done ends getData at that endpoint:
\* no later endpoint is touched, confirmedV2, discardNoSupportErrors and
\* lastErr keep their values, and the error is returned as Fetch returned it.
C7_Inv ==
    \A k \in LogIdx :
        (log[k].op = "FetchErr" /\ log[k].done) =>
            /\ k = Len(log)
            /\ pc = "returned"
            /\ idx = log[k].ep
            /\ retErr = log[k].err
            /\ imgInspect = 0

C7_Step ==
    (FetchErrStep /\ ctxDone)
        => /\ UNCHANGED <<lastErr, confirmedV2, discardNoSupportErrors, idx>>
           /\ retErr' = log'[Len(log')].err
           /\ pc' = "returned"

C7_CancelledFetchReturnsVerbatim == [](C7_Inv) /\ [][C7_Step]_vars

\* A cancelled Fetch returned a fallbackError carrying confirmedV2 while an
\* earlier error was remembered and endpoints were left.
C7_Witness ==
    /\ pc = "returned"
    /\ ctxDone
    /\ retErr.wrapped
    /\ retErr.confirmedV2
    /\ ~confirmedV2
    /\ lastErr # NoErr
    /\ lastErr # Unwrap(retErr)
    /\ idx < Len(endpoints)

\* ctx became done at entry k, between two endpoint attempts.
CancelledBetween(k) == log[k].op = "cancelBetween" /\ k > 1

IsCanonicalAbs(s) ==
    /\ Len(s) >= 2
    /\ s[1] = "/"
    /\ s[Len(s)] # "/"
    /\ \A i \in 1..(Len(s) - 1) : ~(s[i] = "/" /\ s[i + 1] = "/")
    /\ \A i \in 2..Len(s) :
          (s[i - 1] = "/" /\ s[i] = ".") =>
              /\ i < Len(s)
              /\ s[i + 1] # "/"
              /\ (s[i + 1] = "." => (i + 1 < Len(s) /\ s[i + 2] # "/"))

RelativePath == <<"r", "e", "l", "a", "t", "i", "v", "e", "/", "p", "a", "t", "h">>

\* C9: ValidatePolicyConfigurationScope(scope) returns nil exactly when scope
\* starts with "/", is not "/" and equals Clean(scope); "/" is refused,
\* "/a/b/" is refused as non-canonical with "/a/b" suggested, "relative/path"
\* is refused as not absolute and "/a/b" is accepted.
C9_ValidateScope ==
    dirOp = "validate" =>
        /\ (scopeErr.err = "nil") <=>
              (HasSlashPrefix(scope) /\ scope # <<"/">> /\ Clean(scope) = scope)
        /\ (scopeErr.err = "nil") <=> IsCanonicalAbs(scope)
        /\ scope = <<"/">> => scopeErr.err = "root"
        /\ scope = <<"/", "a", "/", "b", "/">> =>
              scopeErr = [err |-> "nonCanonical", try |-> <<"/", "a", "/", "b">>]
        /\ scope = <<"/", "a", "/", "b">> => scopeErr.err = "nil"
        /\ ~HasSlashPrefix(scope) => scopeErr.err = "notAbsolute"
        /\ ValidatePolicyConfigurationScope(RelativePath).err = "notAbsolute"

C9_Witness ==
    /\ dirOp = "validate"
    /\ scope = <<"/", "a", "/", "b", "/">>
    /\ scopeErr.err = "nonCanonical"

C9_WitnessAccepted ==
    /\ dirOp = "validate"
    /\ scope = <<"/", "a", "/", "b">>
    /\ scopeErr.err = "nil"

\* Positions of "/" in s.
Slashes(s) == {i \in 1..Len(s) : s[i] = "/"}

\* Number of elements of the clean absolute path s.
NumElements(s) == IF s = <<"/">> THEN 0 ELSE Cardinality(Slashes(s))

\* The first m elements of the clean absolute path s, 1 <= m < NumElements(s).
FirstElements(s, m) ==
    LET p == CHOOSE q \in Slashes(s) :
                 Cardinality({x \in Slashes(s) : x <= q}) = m + 1
    IN  SubSeq(s, 1, p - 1)

IsProperPrefix(a, b) == Len(a) < Len(b) /\ SubSeq(b, 1, Len(a)) = a

\* C10: for the resolved path /c1/.../cn PolicyConfigurationNamespaces is
\* exactly [/c1/.../c(n-1), ..., /c1] (n-1 entries, none for n <= 1), each
\* entry a proper prefix of the one before it and of the identity, and
\* neither "/" nor "" is in the list.
C10_Namespaces ==
    dirOp = "policy" =>
        LET n == NumElements(ref.resolvedPath)
        IN  /\ identity = ref.resolvedPath
            /\ Len(namespaces) = (IF n <= 1 THEN 0 ELSE n - 1)
            /\ \A i \in 1..Len(namespaces) :
                  /\ namespaces[i] = FirstElements(ref.resolvedPath, n - i)
                  /\ namespaces[i] # <<>>
                  /\ namespaces[i] # <<"/">>
                  /\ IsProperPrefix(namespaces[i],
                                    IF i = 1 THEN identity ELSE namespaces[i - 1])

C10_Witness ==
    /\ dirOp = "policy"
    /\ ref.resolvedPath = <<"/", "a", "/", "b", "/", "a">>
    /\ namespaces = << <<"/", "a", "/", "b">>, <<"/", "a">> >>

C10_WitnessRoot ==
    /\ dirOp = "policy"
    /\ ref.resolvedPath = <<"/">>
    /\ namespaces = <<>>

\* ------------------------------------------------ getData claims, part 2
\* The step is the loop body run for an endpoint whose fetcher cannot be built.
ConstructionFailsStep ==
    /\ InLoop
    /\ ~(confirmedV2 /\ endpoints[idx] = APIVersion1)
    /\ endpoints[idx] # APIVersion2
    /\ idx' # idx

\* C15: when newManifestFetcher fails for an endpoint, its error becomes
\* lastErr, Fetch is not called on that endpoint, confirmedV2 and
\* discardNoSupportErrors stay, and the loop goes on with the next endpoint.
C15_Step ==
    ConstructionFailsStep =>
        /\ lastErr' = MkErr(FALSE, FALSE, "unknownVersion", idx)
        /\ log' = Append(log, Entry("newManifestFetcher", idx, lastErr'))
        /\ idx' = idx + 1
        /\ pc' = "loop"
        /\ UNCHANGED <<confirmedV2, discardNoSupportErrors, retErr, imgInspect>>

C15_Inv ==
    \A k \in LogIdx :
        (log[k].op = "newManifestFetcher" /\ log[k].err # NoErr) =>
            /\ idx > log[k].ep
            /\ \A j \in LogIdx : log[j].ep = log[k].ep => j = k

C15_ConstructionFailureContinues == [](C15_Inv) /\ [][C15_Step]_vars

\* A construction failed on an endpoint after the first one and the next
\* endpoint was attempted.
C15_Witness ==
    \E k \in LogIdx : \E j \in LogIdx :
        /\ log[k].op = "newManifestFetcher"
        /\ log[k].err # NoErr
        /\ log[k].ep > 1
        /\ j > k
        /\ log[j].op = "newManifestFetcher"
        /\ log[j].ep = log[k].ep + 1

\* Entry k ends the attempt on its endpoint without a result.
IsFailedOrSkipped(k) ==
    \/ log[k].op = "skip"
    \/ log[k].op = "FetchErr"
    \/ (log[k].op = "newManifestFetcher" /\ log[k].err # NoErr)

\* Number of Fetch calls that have not returned.
InFlight ==
    Cardinality({k \in LogIdx : log[k].op = "Fetch"})
        - Cardinality({k \in LogIdx : log[k].op \in {"FetchOk", "FetchErr"}})

\* C16: within one getData call endpoints are attempted in list order, each
\* at most once and one at a time: the attempt on endpoint j starts only
\* after every endpoint i < j has failed or been skipped.
C16_SequentialOrdered ==
    /\ \A k \in LogIdx : \A j \in LogIdx :
          (k < j /\ log[k].ep > 0 /\ log[j].ep > 0) => log[k].ep <= log[j].ep
    /\ \A k \in LogIdx : \A j \in LogIdx :
          (IsCall(k) /\ IsCall(j) /\ log[k].op = log[j].op /\ log[k].ep = log[j].ep)
              => k = j
    /\ \A k \in LogIdx :
          IsCall(k) =>
              \A i \in 1..(log[k].ep - 1) :
                  \E h \in 1..(k - 1) : log[h].ep = i /\ IsFailedOrSkipped(h)
    /\ InFlight \in {0, 1}
    /\ InFlight = 1 <=> pc = "fetch"

\* The third endpoint is being fetched after a failure and a skip.
C16_Witness ==
    /\ pc = "fetch"
    /\ idx = 3
    /\ \E k \in LogIdx : log[k].op = "skip"
    /\ \E k \in LogIdx : log[k].op = "FetchErr"

\* The outcome of a returned getData is a result or an error, not both,
\* not neither.
OneOutcome ==
    \/ (imgInspect # 0 /\ retErr = NoErr)
    \/ (imgInspect = 0 /\ retErr # NoErr)

\* C17: for every endpoint list and every combination of outcomes getData
\* returns after at most one pass over the list, with a result and a nil
\* error or with a nil result and a non-nil error.
C17_Inv ==
    /\ idx <= Len(endpoints) + 1
    /\ Cardinality({k \in LogIdx : IsCall(k)}) <= 2 * Len(endpoints)
    /\ pc = "returned" => OneOutcome
    /\ pc # "returned" => (imgInspect = 0 /\ retErr = NoErr)

C17_TerminatesWithOneOutcome == [](C17_Inv) /\ <>(pc = "returned")

\* getData returned an error after failures on every endpoint of a full list.
C17_Witness ==
    /\ ReturnedExhausted
    /\ Len(endpoints) = MaxEndpoints
    /\ retErr # NoErr
    /\ imgInspect = 0
    /\ \E k \in LogIdx : log[k].op = "FetchErr"

\* getData returned the no-endpoints error for the empty list.
C17_WitnessEmpty == pc = "returned" /\ endpoints = <<>> /\ retErr = NoEndpointsErr

\* C19: whenever discardNoSupportErrors is set, lastErr is non-nil and is not
\* an ErrNoSupport; confirmedV2 and discardNoSupportErrors never go back
\* from true to false.
C19_Inv ==
    discardNoSupportErrors =>
        /\ lastErr # NoErr
        /\ lastErr.kind # "ErrNoSupport"
        /\ ~lastErr.wrapped

C19_Step ==
    /\ confirmedV2 => confirmedV2'
    /\ discardNoSupportErrors => discardNoSupportErrors'

C19_FlagsInvariant == [](C19_Inv) /\ [][C19_Step]_vars

\* Both flags are set and failures without the confirmedV2 flag followed.
C19_Witness ==
    /\ confirmedV2
    /\ discardNoSupportErrors
    /\ \E k \in LogIdx : \E j \in LogIdx :
          /\ k < j
          /\ IsFallbackFailure(k)
          /\ log[k].err.confirmedV2
          /\ IsFallbackFailure(j)
          /\ ~log[j].err.confirmedV2
          /\ log[j].err.kind = "ErrNoSupport"

\* C20: Fetch is never called on an endpoint whose version is not
\* APIVersion2: a v1 endpoint is skipped when confirmedV2 is set, else its
\* construction fails with the "unknown version" error, which replaces
\* lastErr also when lastErr holds a real failure and
\* discardNoSupportErrors is set.
C20_Inv ==
    \A k \in LogIdx :
        log[k].ep > 0 =>
            IF endpoints[log[k].ep] = APIVersion2
            THEN log[k].op # "skip"
            ELSE \/ log[k].op = "skip" /\ SeenConfirmedV2(k)
                 \/ /\ log[k].op = "newManifestFetcher"
                    /\ log[k].err = MkErr(FALSE, FALSE, "unknownVersion", log[k].ep)
                    /\ ~SeenConfirmedV2(k)

C20_Step ==
    (InLoop /\ endpoints[idx] # APIVersion2 /\ ~confirmedV2 /\ idx' # idx)
        => lastErr' = MkErr(FALSE, FALSE, "unknownVersion", idx)

C20_NoFetchOnV1 == [](C20_Inv) /\ [][C20_Step]_vars

\* The "unknown version" error of a v1 endpoint replaced a real failure of
\* an earlier v2 endpoint while discardNoSupportErrors was set.
C20_Witness ==
    /\ discardNoSupportErrors
    /\ lastErr.kind = "unknownVersion"
    /\ \E k \in LogIdx :
          /\ IsFallbackFailure(k)
          /\ log[k].err.kind = "Generic"
          /\ log[k].ep < lastErr.ep

\* ------------------------------------- directory transport claims, part 2
\* C18: every value a directory reference returns from
\* PolicyConfigurationIdentity() or PolicyConfigurationNamespaces() is
\* accepted by ValidatePolicyConfigurationScope, for every clean absolute
\* resolved path, the root "/" and one-element paths included.
C18_ScopesAccepted ==
    dirOp = "policy" =>
        /\ ValidatePolicyConfigurationScope(identity).err = "nil"
        /\ \A i \in 1..Len(namespaces) :
              ValidatePolicyConfigurationScope(namespaces[i]).err = "nil"

\* The same for every resolved path but the root (holds).
C18_ScopesAcceptedBelowRoot ==
    (dirOp = "policy" /\ ref.resolvedPath # <<"/">>) => C18_ScopesAccepted

\* ----------------------------------------------------- reference claims
\* C11: for every reference a transport's ParseReference returned, parsing
\* its StringWithinTransport() again succeeds and gives a reference with the
\* same StringWithinTransport(), also when that string is not the input.
C11_RoundTrip ==
    /\ dirOp = "reparse" =>
          /\ ref2 # NoRef
          /\ ref2.path = ref.path
          /\ DirStringWithinTransport(ref2) = DirStringWithinTransport(ref)
    /\ dockerOp = "reparse" =>
          /\ dref2.ok
          /\ DockerStringWithinTransport(dref2.ref) = DockerStringWithinTransport(dref.ref)
          /\ dref2.ref = dref.ref

\* A docker reference whose string differs from the input was parsed again.
C11_Witness ==
    /\ dockerOp = "reparse"
    /\ dinput = <<"//", "docker.io", "/", "library", "/", "busybox", ":", "latest">>
    /\ DockerStringWithinTransport(dref.ref) = <<"//", "busybox", ":", "latest">>
    /\ dref2.ok

\* A directory reference with a relative path was parsed again.
C11_WitnessDir ==
    /\ dirOp = "reparse"
    /\ ref.path = <<"a">>
    /\ ref.resolvedPath = <<"/", "b", "/", "a">>
    /\ ref2 = ref

\* The tag and the digest written in a docker string ("" for none).
InputTag(s) ==
    IF IndexOf(s, ":") = 0 THEN "" ELSE s[IndexOf(s, ":") + 1]

InputDigest(s) ==
    IF IndexOf(s, "@") = 0 THEN "" ELSE s[IndexOf(s, "@") + 1]

\* s has the "//" prefix and no upper-case element.
ValidDockerInput(s) ==
    /\ Len(s) > 0
    /\ s[1] = "//"
    /\ \A i \in 1..Len(s) : s[i] # "UPPERCASEISINVALID"

\* C12: a reference returned by docker ParseReference has exactly one of tag
\* and digest: an input with neither gets the tag "latest", an input with one
\* keeps it, an input with both keeps the digest and loses the tag.
C12_ExactlyOnePin ==
    dockerOp = "parse" =>
        /\ dref.ok <=> ValidDockerInput(dinput)
        /\ dref.ok =>
              LET t == InputTag(dinput)
                  d == InputDigest(dinput)
              IN  /\ (dref.ref.tag = "") # (dref.ref.digest = "")
                  /\ (t = "" /\ d = "") =>
                        (dref.ref.tag = "latest" /\ dref.ref.digest = "")
                  /\ (t # "" /\ d = "") =>
                        (dref.ref.tag = t /\ dref.ref.digest = "")
                  /\ d # "" => (dref.ref.digest = d /\ dref.ref.tag = "")
        /\ dinput = <<"//", "busybox">> =>
              NamedString(dref.ref) = <<"busybox", ":", "latest">>
        /\ dinput = <<"//", "busybox", ":", "latest", "@", "sha256:0123">> =>
              NamedString(dref.ref) = <<"busybox", "@", "sha256:0123">>

\* An input with a tag and a digest was parsed.
C12_Witness ==
    /\ dockerOp = "parse"
    /\ dinput = <<"//", "busybox", ":", "latest", "@", "sha256:0123">>
    /\ dref.ok
    /\ dref.ref.tag = ""
    /\ dref.ref.digest = "sha256:0123"

\* C13: docker NewReference succeeds exactly for a name with one of tag and
\* digest: it fails for a name with neither and for a name with both, and
\* then gives no reference.
C13_NewReference ==
    dockerOp = "new" =>
        /\ dref.ok <=> ((dinput.tag = "") # (dinput.digest = ""))
        /\ dref.ok => dref.ref = dinput
        /\ ~dref.ok => dref.ref = NoNamed

\* A name with a tag and a digest was refused.
C13_Witness ==
    /\ dockerOp = "new"
    /\ dinput.tag # ""
    /\ dinput.digest # ""
    /\ ~dref.ok

\* A name with neither was refused.
C13_WitnessNeither ==
    /\ dockerOp = "new"
    /\ dinput.tag = ""
    /\ dinput.digest = ""
    /\ ~dref.ok

\* C14: for a docker reference host/p1/.../pk with a tag or digest the
\* identity is the full pinned string and the namespaces are the name
\* without the pin, then the name with trailing elements taken off one at a
\* time, down to the host; busybox is docker.io/library/busybox:latest.
C14_DockerPolicy ==
    dockerOp = "policy" =>
        LET r == dref.ref
            n == Len(r.path)
        IN  /\ didentity = <<r.host, "/">> \o JoinSlash(r.path)
                               \o PinTokens(r.tag, r.digest)
            /\ Len(dnamespaces) = n + 1
            /\ \A i \in 1..(n + 1) :
                  dnamespaces[i] =
                      IF i = n + 1 THEN <<r.host>>
                      ELSE <<r.host, "/">> \o JoinSlash(SubSeq(r.path, 1, n + 1 - i))
            /\ dinput = <<"//", "busybox">> =>
                  /\ didentity = <<"docker.io", "/", "library", "/", "busybox",
                                   ":", "latest">>
                  /\ dnamespaces = << <<"docker.io", "/", "library", "/", "busybox">>,
                                      <<"docker.io", "/", "library">>,
                                      <<"docker.io">> >>
            /\ dinput = <<"//", "example.com", "/", "ns", "/", "foo", ":", "bar">> =>
                  /\ didentity = <<"example.com", "/", "ns", "/", "foo", ":", "bar">>
                  /\ dnamespaces = << <<"example.com", "/", "ns", "/", "foo">>,
                                      <<"example.com", "/", "ns">>,
                                      <<"example.com">> >>

C14_Witness ==
    /\ dockerOp = "policy"
    /\ dinput = <<"//", "busybox">>
    /\ Len(dnamespaces) = 3

C14_WitnessQualified ==
    /\ dockerOp = "policy"
    /\ dinput = <<"//", "example.com", "/", "ns", "/", "foo", ":", "bar">>
    /\ Len(dnamespaces) = 3

\* ------------------------------------------------- error on exhaustion
\* Entry k records a failed newManifestFetcher call.
IsConstructionFailure(k) ==
    log[k].op = "newManifestFetcher" /\ log[k].err # NoErr

\* Entry k records a construction failure or a fallback failure whose cause
\* is not ErrNoSupport.
IsStrongFailure(k) ==
    \/ IsConstructionFailure(k)
    \/ (IsFallbackFailure(k) /\ log[k].err.kind # "ErrNoSupport")

\* Entry k is the last one of the history that satisfies P.
LastOf(P(_), k) == P(k) /\ \A m \in LogIdx : P(m) => m <= k

\* Entry k records a failure that the loop stores in lastErr: a construction
\* failure, a fallback failure that is not ErrNoSupport, or an ErrNoSupport
\* fallback failure seen while discardNoSupportErrors was still false.
IsRemembered(k) ==
    \/ IsStrongFailure(k)
    \/ (IsFallbackFailure(k) /\ ~SeenRealFailure(k))

\* C21: when getData exhausts a non-empty list without cancellation, the
\* error returned is the unwrapped error of the last endpoint that failed in
\* construction or with a fallback error other than ErrNoSupport, if there is
\* one; otherwise every attempt failed with ErrNoSupport and the error
\* returned is the ErrNoSupport of the last attempted endpoint.
C21_ExhaustedErrorChoice ==
    (ReturnedExhausted /\ Len(endpoints) > 0 /\ ~ctxDone) =>
        IF \E k \in LogIdx : IsStrongFailure(k)
        THEN \E k \in LogIdx :
                 LastOf(IsStrongFailure, k) /\ retErr = Unwrap(log[k].err)
        ELSE \E k \in LogIdx :
                 /\ LastOf(IsFallbackFailure, k)
                 /\ retErr = Unwrap(log[k].err)
                 /\ retErr.kind = "ErrNoSupport"

\* What the loop does: the error returned is that of the last remembered
\* failure (holds).
C21_ExhaustedErrorRemembered ==
    (ReturnedExhausted /\ Len(endpoints) > 0 /\ ~ctxDone) =>
        \E k \in LogIdx : LastOf(IsRemembered, k) /\ retErr = Unwrap(log[k].err)

\* The choice of C21 where no ErrNoSupport fallback failure follows a
\* construction failure without a real fallback failure before it (holds).
C21_ExhaustedErrorChoiceNoOverwrite ==
    (\A k \in LogIdx :
        (IsFallbackFailure(k) /\ log[k].err.kind = "ErrNoSupport"
           /\ \E m \in 1..(k - 1) : IsConstructionFailure(m))
            => SeenRealFailure(k))
        => C21_ExhaustedErrorChoice

====
